---------------------------- MODULE Spec2Model ----------------------------
(***************************************************************************)
(* Document classification pipeline of src/app/main_clasificacion_1.py     *)
(* (hybrid: vision + text) and src/app/main_clasificacion_Text.py          *)
(* (text only).                                                            *)
(*                                                                         *)
(* Texts that the code inspects character by character (the model's raw    *)
(* response, labels, evidence) are sequences of one-character strings.     *)
(* Page texts, which the code only concatenates, slices, collapses and     *)
(* measures, are kept run-length encoded (sequences of [c, n] runs).       *)
(* Scores are fixed-point numbers in thousandths (0.87 is 870).            *)
(***************************************************************************)
EXTENDS Integers, Sequences, FiniteSets, Bags, TLC

(***************************************************************************)
(* Labels and fixed texts of the source                                    *)
(***************************************************************************)
QUEJA_RECLAMO == <<"Q", "U", "E", "J", "A", "_", "R", "E", "C", "L", "A", "M", "O">>
CONTRATO == <<"C", "O", "N", "T", "R", "A", "T", "O">>
RESOLUCION_ADMINISTRATIVA == <<"R", "E", "S", "O", "L", "U", "C", "I", "O", "N", "_", "A", "D", "M", "I", "N", "I", "S", "T", "R", "A", "T", "I", "V", "A">>
INFORME_TECNICO == <<"I", "N", "F", "O", "R", "M", "E", "_", "T", "E", "C", "N", "I", "C", "O">>
COMUNICACION_INTERNA == <<"C", "O", "M", "U", "N", "I", "C", "A", "C", "I", "O", "N", "_", "I", "N", "T", "E", "R", "N", "A">>

CATEGORIAS_VALIDAS ==
    {QUEJA_RECLAMO, CONTRATO, RESOLUCION_ADMINISTRATIVA, INFORME_TECNICO,
     COMUNICACION_INTERNA}

REVISION_MANUAL == <<"R", "E", "V", "I", "S", "I", "O", "N", "_", "M", "A", "N", "U", "A", "L">>
ERROR == <<"E", "R", "R", "O", "R">>
VACIO == <<"V", "A", "C", "I", "O">>
ARCHIVO_CORRUPTO == <<"A", "R", "C", "H", "I", "V", "O", "_", "C", "O", "R", "R", "U", "P", "T", "O">>

Sentinels == {REVISION_MANUAL, ERROR, VACIO, ARCHIVO_CORRUPTO}

KeyCategoria == <<"c", "a", "t", "e", "g", "o", "r", "i", "a">>
KeyScore == <<"s", "c", "o", "r", "e">>
KeyEvidencia == <<"e", "v", "i", "d", "e", "n", "c", "i", "a">>

\* Accented letters of the source's messages are written unaccented.
SinEvidenciaDetallada == <<"S", "i", "n", " ", "e", "v", "i", "d", "e", "n", "c", "i", "a", " ", "d", "e", "t", "a", "l", "l", "a", "d", "a">>
SinEvidencia == <<"S", "i", "n", " ", "e", "v", "i", "d", "e", "n", "c", "i", "a">>
NoJsonValido == <<"E", "l", " ", "m", "o", "d", "e", "l", "o", " ", "n", "o", " ", "r", "e", "t", "o", "r", "n", "o", " ", "u", "n", " ", "J", "S", "O", "N", " ", "v", "a", "l", "i", "d", "o", ".">>
JsonIlegible == <<"J", "S", "O", "N", " ", "i", "l", "e", "g", "i", "b", "l", "e">>
ErrorSintaxis == <<"E", "r", "r", "o", "r", " ", "d", "e", " ", "s", "i", "n", "t", "a", "x", "i", "s", " ", "J", "S", "O", "N", ":", " ">>
FalloInferencia == <<"F", "a", "l", "l", "o", " ", "e", "n", " ", "i", "n", "f", "e", "r", "e", "n", "c", "i", "a", ":", " ">>
PdfSinPaginas == <<"P", "D", "F", " ", "s", "i", "n", " ", "p", "a", "g", "i", "n", "a", "s">>
SinPaginas == <<"S", "i", "n", " ", "p", "a", "g", "i", "n", "a", "s">>
PdfEsImagen == <<"P", "D", "F", " ", "e", "s", " ", "i", "m", "a", "g", "e", "n", " ", "(", "s", "i", "n", " ", "c", "a", "p", "a", " ", "d", "e", " ", "t", "e", "x", "t", "o", ")">>

(***************************************************************************)
(* Character-level text operations (Python str and re)                     *)
(***************************************************************************)
Lower == <<"a", "b", "c", "d", "e", "f", "g", "h", "i", "j", "k", "l", "m", "n", "o", "p", "q", "r", "s", "t", "u", "v", "w", "x", "y", "z">>
UpperL == <<"A", "B", "C", "D", "E", "F", "G", "H", "I", "J", "K", "L", "M", "N", "O", "P", "Q", "R", "S", "T", "U", "V", "W", "X", "Y", "Z">>

Digits == <<"0", "1", "2", "3", "4", "5", "6", "7", "8", "9">>

Range(f) == {f[i] : i \in DOMAIN f}

\* Whitespace of str.strip(), of the regex class \s and of the JSON grammar.
WS == {" ", "\n", "\t"}

Min(S) == CHOOSE x \in S : \A y \in S : x <= y

Max(S) == CHOOSE x \in S : \A y \in S : x >= y

\* s[a:b] of Python over 1-based positions a..b (empty when a > b).
Slice(s, a, b) == IF a > b THEN <<>> ELSE SubSeq(s, a, b)

\* s[:n]
Prefix(s, n) == Slice(s, 1, IF n < Len(s) THEN n ELSE Len(s))

\* [c] * n
Rep(c, n) == [i \in 1..n |-> c]

\* str.upper()
Upper(s) ==
    [i \in DOMAIN s |->
        IF s[i] \in Range(Lower)
        THEN UpperL[CHOOSE k \in DOMAIN Lower : Lower[k] = s[i]]
        ELSE s[i]]

\* str.replace(a, b) for single characters a, b
ReplaceChar(s, a, b) == [i \in DOMAIN s |-> IF s[i] = a THEN b ELSE s[i]]

\* The part of s from its first to its last position in keep.
Between(s, keep) ==
    IF keep = {} THEN <<>> ELSE Slice(s, Min(keep), Max(keep))

\* str.strip()
Strip(s) == Between(s, {i \in DOMAIN s : s[i] \notin WS})

\* s.startswith(w, i)
IsAt(s, i, w) ==
    /\ i + Len(w) - 1 <= Len(s)
    /\ \A k \in 1..Len(w) : s[i + k - 1] = w[k]

\* The backtick cannot be written in a string of this language: the
\* character is named "BQ" (backquote).
BQ == "BQ"

Fence == <<BQ, BQ, BQ>>

LangTag == <<"j", "s", "o", "n">>

\* The elements of s at the positions lo..hi that are in keep, in order.
RECURSIVE KeepAt(_, _, _, _)
KeepAt(s, keep, lo, hi) ==
    IF lo > hi THEN <<>>
    ELSE IF lo = hi THEN (IF lo \in keep THEN <<s[lo]>> ELSE <<>>)
    ELSE KeepAt(s, keep, lo, (lo + hi) \div 2)
         \o KeepAt(s, keep, (lo + hi) \div 2 + 1, hi)

\* Where the fence pattern matches when the text is scanned left to right
\* for non-overlapping matches: at every third backtick of a run of
\* backticks, as long as three of the run are left.
FenceStarts(s) ==
    {i \in DOMAIN s :
        /\ IsAt(s, i, Fence)
        /\ (i - Max({p \in 1..i : \A q \in p..i : s[q] = BQ})) % 3 = 0}

\* The positions a match covers: its three backticks, and the word json
\* when it follows them directly.
FenceCovered(s) ==
    UNION {(m..(m + 2)) \cup (IF IsAt(s, m + 3, LangTag) THEN (m + 3)..(m + 6) ELSE {})
           : m \in FenceStarts(s)}

\* re.sub of the fence pattern (three backticks, optionally followed by
\* the word json) by the empty text
StripFences(s) == KeepAt(s, DOMAIN s \ FenceCovered(s), 1, Len(s))

\* A faulty variant of the first brace step: the text is left as it is.
DropBeforeFirstBraceKept(s) == s

\* re.sub of the leading run of non-open-brace characters: drops everything
\* before the first open brace (everything, when there is none)
DropBeforeFirstBrace(s) ==
    IF \A i \in DOMAIN s : s[i] # "{" THEN <<>>
    ELSE Slice(s, Min({i \in DOMAIN s : s[i] = "{"}), Len(s))

\* A faulty variant of the second brace step: the text is left as it is.
DropAfterLastBraceKept(s) == s

\* re.sub of the trailing run of non-close-brace characters: drops
\* everything after the last close brace (everything, when there is none)
DropAfterLastBrace(s) ==
    IF \A i \in DOMAIN s : s[i] # "}" THEN <<>>
    ELSE Slice(s, 1, Max({i \in DOMAIN s : s[i] = "}"}))

\* content.strip(), then the three cleaning steps of the code.
Cleaned(content) ==
    DropAfterLastBrace(DropBeforeFirstBrace(Strip(StripFences(Strip(content)))))

(***************************************************************************)
(* json.loads: values, parse results and the recursive-descent decoder     *)
(***************************************************************************)
\* A decoded JSON value: t is its Python type, s the text of a str (for a
\* list or a dict, its source text), n the number in thousandths (True is
\* 1000, False is 0, as in Python's arithmetic).
Val(t, s, n) == [t |-> t, s |-> s, n |-> n]

Str(s) == Val("str", s, 0)

Num(n) == Val("num", <<>>, n)

None == Val("null", <<>>, 0)

\* One key of the decoded dict: dict.get(key, default) reads it.
Absent == [present |-> FALSE, val |-> None]

Present(v) == [present |-> TRUE, val |-> v]

EmptyDict == [categoria |-> Absent, score |-> Absent, evidencia |-> Absent]

\* dict[key] = value, for the three keys the code reads (a repeated key
\* keeps the last value; any other key is decoded and dropped).
SetKey(d, key, v) ==
    IF key = KeyCategoria THEN [d EXCEPT !.categoria = Present(v)]
    ELSE IF key = KeyScore THEN [d EXCEPT !.score = Present(v)]
    ELSE IF key = KeyEvidencia THEN [d EXCEPT !.evidencia = Present(v)]
    ELSE d

Ok(pos, v, d) == [ok |-> TRUE, pos |-> pos, val |-> v, d |-> d, err |-> "none"]

Fail(kind) == [ok |-> FALSE, pos |-> 0, val |-> None, d |-> EmptyDict, err |-> kind]

\* str(je): only its length is observable (through the truncations).  It
\* is the message of each kind followed by ": line 1 column c (char p)"
\* with one-digit c and p.
JSONDecodeErrorMsg(kind) ==
    Rep("m", CASE kind = "value" -> 41
               [] kind = "delimiter" -> 49
               [] kind = "property" -> 75
               [] kind = "extra" -> 36
               [] kind = "control" -> 54
               [] OTHER -> 57)

At(s, i) == IF i \in DOMAIN s THEN s[i] ELSE "EOF"

\* WHITESPACE.match(s, i).end()
SkipWs(s, i) ==
    Min({j \in i..(Len(s) + 1) : At(s, j) \notin WS})

DigitVal(c) == (CHOOSE i \in DOMAIN Digits : Digits[i] = c) - 1

\* End of the maximal run of digits starting at i (i - 1 when there is none).
DigitRunEnd(s, i) ==
    Min({j \in i..(Len(s) + 1) : At(s, j) \notin Range(Digits)}) - 1

\* int(s[a..b]) for a run of digits
RECURSIVE DigitsValue(_, _, _)
DigitsValue(s, a, b) ==
    IF a > b THEN 0 ELSE DigitsValue(s, a, b - 1) * 10 + DigitVal(s[b])

\* The digit at position p of a fraction that ends at b (0 past its end).
FracDigit(s, p, b) == IF p <= b THEN DigitVal(s[p]) ELSE 0

\* The fraction s[a..b] (digits after the point) in thousandths; digits past
\* the third are below the resolution of the fixed-point scores.
FracValue(s, a, b) ==
    FracDigit(s, a, b) * 100 + FracDigit(s, a + 1, b) * 10 + FracDigit(s, a + 2, b)

Signed(neg, mag) == IF neg THEN 0 - mag ELSE mag

\* The string that opens at i and whose first quote or control character
\* is at the least position of stop.
StringUpTo(s, i, stop) ==
    IF stop = {} THEN Fail("unterminated")
    ELSE IF s[Min(stop)] # "\"" THEN Fail("control")
    ELSE Ok(Min(stop) + 1, Str(Slice(s, i + 1, Min(stop) - 1)), EmptyDict)

\* scanstring(s, i + 1, strict=True) with s[i] the opening quote: the text up
\* to the next quote; a control character before it is an error.  (No input
\* of the model contains a backslash.)
ParseString(s, i) ==
    StringUpTo(s, i, {j \in (i + 1)..Len(s) : s[j] \in {"\"", "\n", "\t"}})

\* The number whose integer part is s[st..ie] and whose last digit is at fe.
NumberValue(s, neg, st, ie, fe) ==
    Ok(fe + 1,
       Num(Signed(neg, DigitsValue(s, st, ie) * 1000 + FracValue(s, ie + 2, fe))),
       EmptyDict)

\* The optional fraction: a point followed by at least one digit.
NumberFraction(s, neg, st, ie) ==
    NumberValue(s, neg, st, ie,
                IF At(s, ie + 1) = "." /\ At(s, ie + 2) \in Range(Digits)
                THEN DigitRunEnd(s, ie + 2) ELSE ie)

\* The integer part: a single 0, or a run of digits.
NumberInteger(s, neg, st) ==
    IF At(s, st) \notin Range(Digits) THEN Fail("value")
    ELSE NumberFraction(s, neg, st,
                        IF At(s, st) = "0" THEN st ELSE DigitRunEnd(s, st))

\* NUMBER_RE.match(s, i): -?(0|[1-9][0-9]*)(\.[0-9]+)?  (no input of the
\* model writes an exponent)
ParseNumber(s, i) ==
    NumberInteger(s, At(s, i) = "-", IF At(s, i) = "-" THEN i + 1 ELSE i)

LitNull == <<"n", "u", "l", "l">>

LitTrue == <<"t", "r", "u", "e">>

LitFalse == <<"f", "a", "l", "s", "e">>

RECURSIVE ParseValue(_, _)
RECURSIVE ParseElems(_, _, _)
RECURSIVE ParseMembers(_, _, _, _)

\* JSONArray, after an element that ended before j: the closing bracket,
\* or a comma and the next element.
AfterElem(s, start, j) ==
    IF At(s, j) = "]"
    THEN Ok(j + 1, Val("list", Slice(s, start, j), 0), EmptyDict)
    ELSE IF At(s, j) = "," THEN ParseElems(s, SkipWs(s, j + 1), start)
    ELSE Fail("delimiter")

\* JSONArray, after the parse r of an element.
ElemParsed(s, start, r) ==
    IF ~r.ok THEN r ELSE AfterElem(s, start, SkipWs(s, r.pos))

\* JSONArray: the elements from position i on, of the array opened at start
ParseElems(s, i, start) == ElemParsed(s, start, ParseValue(s, i))

\* JSONObject, after a comma: the next key must open at n.
NextMember(s, start, d, n) ==
    IF At(s, n) # "\"" THEN Fail("property") ELSE ParseMembers(s, n, start, d)

\* JSONObject, after a member: the closing brace at j, or a comma.
AfterMember(s, start, d, j) ==
    IF At(s, j) = "}" THEN Ok(j + 1, Val("dict", Slice(s, start, j), 0), d)
    ELSE IF At(s, j) # "," THEN Fail("delimiter")
    ELSE NextMember(s, start, d, SkipWs(s, j + 1))

\* JSONObject, after the parse r of the value of the key k.
MemberParsed(s, start, d, k, r) ==
    IF ~r.ok THEN r
    ELSE AfterMember(s, start, SetKey(d, k.val.s, r.val), SkipWs(s, r.pos))

\* JSONObject, after the key k: the colon at c, then the value.
AfterKey(s, start, d, k, c) ==
    IF At(s, c) # ":" THEN Fail("delimiter")
    ELSE MemberParsed(s, start, d, k, ParseValue(s, SkipWs(s, c + 1)))

\* JSONObject, after the parse k of a key.
KeyParsed(s, start, d, k) ==
    IF ~k.ok THEN k ELSE AfterKey(s, start, d, k, SkipWs(s, k.pos))

\* JSONObject: the members from the key whose opening quote is at i on, of
\* the object opened at start, d holding the members decoded so far
ParseMembers(s, i, start, d) == KeyParsed(s, start, d, ParseString(s, i))

\* JSONObject, j the first position after the brace that is no whitespace
ObjectFrom(s, i, j) ==
    IF At(s, j) = "}" THEN Ok(j + 1, Val("dict", Slice(s, i, j), 0), EmptyDict)
    ELSE IF At(s, j) # "\"" THEN Fail("property")
    ELSE ParseMembers(s, j, i, EmptyDict)

\* JSONArray, j the first position after the bracket that is no whitespace
ArrayFrom(s, i, j) ==
    IF At(s, j) = "]" THEN Ok(j + 1, Val("list", Slice(s, i, j), 0), EmptyDict)
    ELSE ParseElems(s, j, i)

\* scan_once(s, i)
ParseValue(s, i) ==
    IF At(s, i) = "\"" THEN ParseString(s, i)
    ELSE IF At(s, i) = "{" THEN ObjectFrom(s, i, SkipWs(s, i + 1))
    ELSE IF At(s, i) = "[" THEN ArrayFrom(s, i, SkipWs(s, i + 1))
    ELSE IF IsAt(s, i, LitNull) THEN Ok(i + 4, None, EmptyDict)
    ELSE IF IsAt(s, i, LitTrue) THEN Ok(i + 4, Val("bool", <<>>, 1000), EmptyDict)
    ELSE IF IsAt(s, i, LitFalse) THEN Ok(i + 5, Val("bool", <<>>, 0), EmptyDict)
    ELSE ParseNumber(s, i)

\* The end of json.loads: nothing but whitespace may follow the value.
LoadsEnd(s, r) ==
    IF ~r.ok THEN r
    ELSE IF SkipWs(s, r.pos) # Len(s) + 1 THEN Fail("extra")
    ELSE r

\* json.loads(s): one value between optional whitespace, nothing after it
JsonLoads(s) == LoadsEnd(s, ParseValue(s, SkipWs(s, 1)))

(***************************************************************************)
(* The response normalizer of both classifiers                             *)
(***************************************************************************)
\* A classification result: categoria is a label, score a number in
\* thousandths, evidencia a value (the code passes on whatever it decoded).
Result(cat, score, ev) == [categoria |-> cat, score |-> score, evidencia |-> ev]

\* The number written by body (digits and at most one point), its integer
\* part ending at ie.
FloatMagnitude(body, ie) ==
    DigitsValue(body, 1, ie) * 1000 + FracValue(body, ie + 2, Len(body))

FloatOfBody(neg, body, dots) ==
    IF /\ \A i \in DOMAIN body : body[i] \in Range(Digits) \/ body[i] = "."
       /\ Cardinality(dots) <= 1
       /\ \E i \in DOMAIN body : body[i] \in Range(Digits)
    THEN [ok |-> TRUE,
          n |-> Signed(neg, FloatMagnitude(body, IF dots = {} THEN Len(body)
                                                 ELSE Min(dots) - 1))]
    ELSE [ok |-> FALSE, n |-> 0]

FloatUnsigned(neg, body) ==
    FloatOfBody(neg, body, {i \in DOMAIN body : body[i] = "."})

FloatOfStripped(t) ==
    FloatUnsigned(At(t, 1) = "-",
                  Slice(t, IF At(t, 1) \in {"-", "+"} THEN 2 ELSE 1, Len(t)))

\* float(s): optional sign, digits with at most one point and at least one
\* digit, surrounding whitespace ignored; anything else is a ValueError.
\* (No input of the model writes an exponent, "inf", "nan" or an underscore.)
PyFloat(s) == FloatOfStripped(Strip(s))

\* result.get("categoria", "")
GetCategoria(d) == IF d.categoria.present THEN d.categoria.val ELSE Str(<<>>)

\* cat.endswith("S") and cat[:-1] in CATEGORIAS_VALIDAS
IsPlural(cat) ==
    /\ Len(cat) > 0
    /\ cat[Len(cat)] = "S"
    /\ Prefix(cat, Len(cat) - 1) \in CATEGORIAS_VALIDAS

\* A faulty variant of the plural repair: no repair at all.
SingularUnrepaired(cat) == cat

\* The plural repair: cat = cat[:-1] when the test holds.
Singular(cat) == IF IsPlural(cat) THEN Prefix(cat, Len(cat) - 1) ELSE cat

\* A faulty variant of the closed-set validation: the label is let through.
ValidatedAny(cat) == cat

\* The closed-set validation.
Validated(cat) == IF cat \notin CATEGORIAS_VALIDAS THEN REVISION_MANUAL ELSE cat

\* The label of the result, from the text of the categoria field: upper
\* case, spaces to underscores, plural repair, closed-set validation.
NormalizeCategoria(text) ==
    Validated(Singular(ReplaceChar(Upper(text), " ", "_")))

\* except ValueError: score = 0.5
FloatOrDefault(f) == IF f.ok THEN Num(f.n) ELSE Num(500)

\* A faulty variant of the parse of a string score: the decimal comma is
\* not replaced.
ParsedScoreAsWritten(score) ==
    IF score.t = "str" THEN FloatOrDefault(PyFloat(score.s)) ELSE score

\* The parse of a score given as a string; any other value is kept.
ParsedScore(score) ==
    IF score.t = "str"
    THEN FloatOrDefault(PyFloat(ReplaceChar(score.s, ",", ".")))
    ELSE score

\* result.get("score", 0.5), and the parse of a score given as a string
GetScore(d) == ParsedScore(IF d.score.present THEN d.score.val ELSE Num(500))

\* A faulty variant of the clamp: the upper limit is forgotten.
ClampFromBelow(n) == IF n < 0 THEN 0 ELSE n

\* max(0.0, min(1.0, score))
Clamp(n) == IF n > 1000 THEN 1000 ELSE IF n < 0 THEN 0 ELSE n

\* The hundredth below (base) and the thousandths digit (r) of a score.
RoundFrom(base, r) ==
    IF r < 5 THEN base
    ELSE IF r > 5 THEN base + 10
    ELSE IF (base \div 10) % 2 = 0 THEN base ELSE base + 10

\* round(score, 2): to the nearest hundredth, a tie to the even hundredth
\* (exact for ties that binary floating point represents exactly: the
\* multiples of 0.125, the only ties among the model's scores).
Round2(n) == RoundFrom(n - (n % 10), n % 10)

\* len(type(v).__name__)
TypeNameLen(t) == IF t = "null" THEN 8 ELSE IF t = "num" THEN 3 ELSE 4

\* str(e) of the AttributeError of v.upper() on a value that is no str
AttributeErrorMsg(t) == Rep("m", 34 + TypeNameLen(t))

\* str(e) of the TypeError of min(1.0, v) on a value that is no number
TypeErrorMsg(t) == Rep("m", 53 + TypeNameLen(t))

\* result.get("evidencia", default)
GetEvidencia(d, default) ==
    IF d.evidencia.present THEN d.evidencia.val ELSE Str(default)

\* The outcome of a piece of code: the record it returns, or the exception
\* that leaves it.
\*   kind "return": res is the returned record
\*   kind "json":   json.JSONDecodeError, msg its message
\*   kind "other":  any other exception, msg its message
Returned(res) == [kind |-> "return", res |-> res, msg |-> <<>>]

Raised(kind, msg) ==
    [kind |-> kind, res |-> Result(<<>>, 0, None), msg |-> msg]

\* A faulty variant of the returned score: both classifiers round.
FinalScoreRounded(variant, n) == Round2(Clamp(n))

\* The score of the returned record: the hybrid classifier rounds after
\* clamping, the text-only classifier only clamps.
FinalScore(variant, n) == IF variant = "hybrid" THEN Round2(Clamp(n)) ELSE Clamp(n)

\* A faulty variant of the normalization: a score that is no number gets
\* the default 0.5 instead of raising.
NormalizeFieldsDefaultScore(variant, d, catv, score, defaultEvidence) ==
    IF catv.t # "str" THEN Raised("other", AttributeErrorMsg(catv.t))
    ELSE Returned(Result(NormalizeCategoria(catv.s),
                         FinalScore(variant,
                                    IF score.t \in {"num", "bool"} THEN score.n ELSE 500),
                         GetEvidencia(d, defaultEvidence)))

\* The normalization of the decoded dict d, catv and score being what the
\* two get calls yield: v.upper() and min(1.0, v) raise on other types.
NormalizeFields(variant, d, catv, score, defaultEvidence) ==
    IF catv.t # "str" THEN Raised("other", AttributeErrorMsg(catv.t))
    ELSE IF score.t \notin {"num", "bool"}
    THEN Raised("other", TypeErrorMsg(score.t))
    ELSE Returned(Result(NormalizeCategoria(catv.s),
                         FinalScore(variant, score.n),
                         GetEvidencia(d, defaultEvidence)))

\* The branch "if cleaned:" once json.loads has run.
NormalizeParsed(variant, parsed, defaultEvidence) ==
    IF ~parsed.ok THEN Raised("json", JSONDecodeErrorMsg(parsed.err))
    ELSE NormalizeFields(variant, parsed.d, GetCategoria(parsed.d),
                         GetScore(parsed.d), defaultEvidence)

\* "if cleaned: ... else: ..."
NormalizeCleaned(variant, cleaned, noJsonEvidence, defaultEvidence) ==
    IF cleaned = <<>>
    THEN Returned(Result(REVISION_MANUAL, 0, Str(noJsonEvidence)))
    ELSE NormalizeParsed(variant, JsonLoads(cleaned), defaultEvidence)

\* The body of the try block once the response text has arrived.
NormalizeBody(variant, content, noJsonEvidence, defaultEvidence) ==
    NormalizeCleaned(variant, Cleaned(content), noJsonEvidence, defaultEvidence)

\* What client.chat.completions.create(...) followed by
\* response.choices[0].message.content does: it raises (msg is str(e)), or
\* yields no content (None), or yields the text of the response.
InferenceRaises(msg) == [kind |-> "raise", text |-> <<>>, msg |-> msg]

InferenceNone == [kind |-> "none", text |-> <<>>, msg |-> <<>>]

InferenceText(text) == [kind |-> "text", text |-> text, msg |-> <<>>]

\* The try block as a whole: the exception of the inference call, of
\* None.strip() (an AttributeError whose str(e) has 42 characters), or of
\* the body.
TryBlock(variant, resp, noJsonEvidence, defaultEvidence) ==
    IF resp.kind = "raise" THEN Raised("other", resp.msg)
    ELSE IF resp.kind = "none" THEN Raised("other", Rep("m", 42))
    ELSE NormalizeBody(variant, resp.text, noJsonEvidence, defaultEvidence)

\* A faulty variant of the except clauses of classify_document_hybrid: the
\* general clause is missing.
HybridHandlersParseOnly(out) ==
    IF out.kind = "json"
    THEN Returned(Result(REVISION_MANUAL, 0,
                         Str(ErrorSintaxis \o Prefix(out.msg, 50))))
    ELSE out

\* The except clauses of classify_document_hybrid: JSONDecodeError has its
\* own handler, every other exception the general one.
HybridHandlers(out) ==
    IF out.kind = "return" THEN out
    ELSE IF out.kind = "json"
    THEN Returned(Result(REVISION_MANUAL, 0,
                         Str(ErrorSintaxis \o Prefix(out.msg, 50))))
    ELSE Returned(Result(ERROR, 0, Str(FalloInferencia \o Prefix(out.msg, 100))))

\* A faulty variant of the except clause of classify_document_text_only:
\* the sentinel carries the default score 0.5.
TextHandlersDefaultScore(out) ==
    IF out.kind = "return" THEN out
    ELSE Returned(Result(ERROR, 500, Str(Prefix(out.msg, 100))))

\* A faulty variant of the except clause of classify_document_text_only:
\* str(e) goes into the evidence whole.
TextHandlersWholeMessage(out) ==
    IF out.kind = "return" THEN out
    ELSE Returned(Result(ERROR, 0, Str(out.msg)))

\* The except clause of classify_document_text_only: one handler for every
\* exception, JSONDecodeError included.
TextHandlers(out) ==
    IF out.kind = "return" THEN out
    ELSE Returned(Result(ERROR, 0, Str(Prefix(out.msg, 100))))

\* classify_document_hybrid, from the try block on.  The value is the
\* outcome of the call: the record returned, or the exception that leaves
\* the function.
classify_document_hybrid(resp) ==
    HybridHandlers(TryBlock("hybrid", resp, NoJsonValido, SinEvidenciaDetallada))

\* classify_document_text_only, from the try block on.
classify_document_text_only(resp) ==
    TextHandlers(TryBlock("text", resp, JsonIlegible, SinEvidencia))

Classify(variant, resp) ==
    IF variant = "hybrid"
    THEN classify_document_hybrid(resp)
    ELSE classify_document_text_only(resp)

(***************************************************************************)
(* Page texts (run-length encoded) and extract_text_smart                  *)
(***************************************************************************)
\* A text as a sequence of runs: [c |-> character, n |-> how many, n >= 1].
Run(c, n) == [c |-> c, n |-> n]

\* len(t[:i-1]) in characters, i a run of t: the lengths of the runs before
\* i, taken as a bag, have that many elements.
Before(t, i) == BagCardinality([j \in 1..(i - 1) |-> t[j].n])

\* len(t)
RLen(t) == Before(t, Len(t) + 1)

\* t[:k]
RPrefix(t, k) ==
    [i \in 1..Cardinality({j \in DOMAIN t : Before(t, j) < k}) |->
        IF Before(t, i) + t[i].n <= k THEN t[i] ELSE Run(t[i].c, k - Before(t, i))]

\* re.sub(r'\s+', ' ', t): every run of whitespace becomes one space
RCollapse(t) ==
    KeepAt([i \in DOMAIN t |-> IF t[i].c \in WS THEN Run(" ", 1) ELSE t[i]],
           {i \in DOMAIN t : ~(t[i].c \in WS /\ i > 1 /\ t[i - 1].c \in WS)},
           1, Len(t))

\* t.strip()
RStrip(t) == Between(t, {i \in DOMAIN t : t[i].c \notin WS})

\* The marker "\n...[CONTENIDO OMITIDO]...\n" between the head of the
\* document and its last page.
Omitido ==
    <<Run("\n", 1), Run(".", 3)>>
    \o [i \in 1..19 |->
          Run(<<"[", "C", "O", "N", "T", "E", "N", "I", "D", "O", " ", "O", "M", "I", "T", "I", "D", "O", "]">>[i], 1)]
    \o <<Run(".", 3), Run("\n", 1)>>

SecondPageChars == 500

MaxChars == 4000

\* A faulty variant of full_text: the last page is appended as soon as the
\* document has a second page.
FullTextLastPageTwice(pages) ==
    (IF Len(pages) > 0 THEN pages[1] \o <<Run("\n", 1)>> ELSE <<>>)
    \o (IF Len(pages) > 1
        THEN RPrefix(pages[2], SecondPageChars) \o <<Run("\n", 1)>> ELSE <<>>)
    \o (IF Len(pages) > 1 THEN Omitido \o pages[Len(pages)] ELSE <<>>)

\* full_text of extract_text_smart: page 1, the head of page 2, and the
\* omission marker with the last page, by the number of pages.
FullText(pages) ==
    (IF Len(pages) > 0 THEN pages[1] \o <<Run("\n", 1)>> ELSE <<>>)
    \o (IF Len(pages) > 1
        THEN RPrefix(pages[2], SecondPageChars) \o <<Run("\n", 1)>> ELSE <<>>)
    \o (IF Len(pages) > 2 THEN Omitido \o pages[Len(pages)] ELSE <<>>)

\* extract_text_smart(doc, max_chars), doc given by the texts of its pages
extract_text_smart(pages, max_chars) ==
    RPrefix(RStrip(RCollapse(FullText(pages))), max_chars)

(***************************************************************************)
(* Inputs: what the model endpoint may answer, what a PDF may contain      *)
(***************************************************************************)
Variants == {"text", "hybrid"}

\* A JSON string literal of the text s (s has no quote and no backslash).
Q(s) == <<"\"">> \o s \o <<"\"">>

Member(key, value) == Q(key) \o <<":", " ">> \o value

\* The members of a JSON object, separated by a comma and a space.
Joined(members) ==
    IF Len(members) = 0 THEN <<>>
    ELSE IF Len(members) = 1 THEN members[1]
    ELSE IF Len(members) = 2 THEN members[1] \o <<",", " ">> \o members[2]
    ELSE members[1] \o <<",", " ">> \o members[2] \o <<",", " ">> \o members[3]

\* The text of a JSON object with the fields categoria, score, evidencia in
\* that order; each of c, sc, ev is <<>> (field absent) or <<text of value>>.
ObjectText(c, sc, ev) ==
    <<"{">>
    \o Joined((IF c = <<>> THEN <<>> ELSE <<Member(KeyCategoria, c[1])>>)
              \o (IF sc = <<>> THEN <<>> ELSE <<Member(KeyScore, sc[1])>>)
              \o (IF ev = <<>> THEN <<>> ELSE <<Member(KeyEvidencia, ev[1])>>))
    \o <<"}">>

\* A label the way a model may write it: lower case, spaces for underscores.
Spoken(label) ==
    ReplaceChar([i \in DOMAIN label |->
                    IF label[i] \in Range(UpperL)
                    THEN Lower[CHOOSE k \in DOMAIN UpperL : UpperL[k] = label[i]]
                    ELSE label[i]], "_", " ")

Factura == <<"F", "A", "C", "T", "U", "R", "A">>
Firma == <<"F", "i", "r", "m", "a">>
Clausulas == <<"C", "l", "a", "u", "s", "u", "l", "a", "s", ",", " ", "C", "o", "n", "t", "r", "a", "t", "a", "n", "t", "e">>
LoSiento == <<"L", "o", " ", "s", "i", "e", "n", "t", "o", ",", " ", "n", "o", " ", "p", "u", "e", "d", "o", " ", "p", "r", "o", "c", "e", "s", "a", "r", " ", "e", "s", "t", "o", ".">>
ListEv == <<"[", "\"", "a", "\"", ",", " ", "\"", "b", "\"", "]">>
ListScore == <<"[", "0", ".", "5", "]">>
DictEv == <<"{", "\"", "k", "\"", ":", " ", "\"", "v", "\"", "}">>

\* The categoria field: absent; a string - every valid label as is, spoken,
\* plural (upper case and spoken) and doubly plural, labels outside the
\* closed set, the sentinels, the empty text; or a value of another JSON
\* type (null, a number, a list).
CatFields ==
    {<<>>}
    \cup {<<Q(c)>> : c \in CATEGORIAS_VALIDAS}
    \cup {<<Q(Spoken(c))>> : c \in CATEGORIAS_VALIDAS}
    \cup {<<Q(c \o <<"S">>)>> : c \in CATEGORIAS_VALIDAS}
    \cup {<<Q(Spoken(c) \o <<"s">>)>> : c \in CATEGORIAS_VALIDAS}
    \cup {<<Q(c \o <<"S", "S">>)>> : c \in CATEGORIAS_VALIDAS}
    \cup {<<Q(c)>> : c \in {Factura, REVISION_MANUAL, ERROR, <<>>, <<"S">>}}
    \cup {<<LitNull>>, <<<<"3">>>>, <<<<"[">> \o Q(CONTRATO) \o <<"]">>>>}

\* The score field: absent; a number as the model may write it (thousandths
\* are the resolution of the model's scores; the ties of round(score, 2)
\* among them are exact in binary floating point); a string; or a value of
\* another JSON type.
ScoreFields ==
    {<<>>}
    \cup {<<n>> : n \in
            {<<"0">>, <<"1">>, <<"0", ".", "5">>, <<"0", ".", "8", "7">>,
             <<"0", ".", "9", "1">>, <<"0", ".", "8", "7", "5">>,
             <<"0", ".", "1", "2", "5">>, <<"0", ".", "3", "3", "3">>,
             <<"1", ".", "0">>, <<"1", ".", "5">>, <<"-", "0", ".", "3">>,
             <<"1", "2">>, <<"-", "7">>}}
    \cup {<<Q(t)>> : t \in
            {<<"0", ",", "8", "7">>, <<"0", ",", "9", "1">>, <<"0", ".", "4">>,
             <<"1", ",", "5">>, <<"-", "0", ",", "3">>, <<"0", ",", "8", "7", "5">>,
             <<" ", "0", ",", "5", " ">>, <<"1", ",", "2", ",", "3">>,
             <<"a", "l", "t", "o">>, <<>>}}
    \cup {<<LitNull>>, <<ListScore>>, <<LitTrue>>, <<DictEv>>}

\* The evidencia field: absent, a string (one with a fence, one with a
\* brace), or a value of another JSON type.
EvFields ==
    {<<>>}
    \cup {<<Q(t)>> : t \in {Firma, Clausulas, <<>>, <<"a", BQ, BQ, BQ, "b">>,
                             <<"x", "}", "y">>}}
    \cup {<<LitNull>>, <<ListEv>>, <<DictEv>>, <<<<"7">>>>}

\* Well-formed objects: every categoria with every score, every categoria
\* with every evidencia, every score with every evidencia.
ObjectTexts ==
    {ObjectText(c, sc, <<Q(Firma)>>) : c \in CatFields, sc \in ScoreFields}
    \cup {ObjectText(c, <<<<"0", ".", "8", "7">>>>, ev) : c \in CatFields, ev \in EvFields}
    \cup {ObjectText(<<Q(CONTRATO)>>, sc, ev) : sc \in ScoreFields, ev \in EvFields}

\* The response of the end-to-end scenario: plural label, comma-decimal
\* score given as a string.
ScenarioObject ==
    ObjectText(<<Q(CONTRATO \o <<"S">>)>>, <<Q(<<"0", ",", "9", "1">>)>>, <<Q(Clausulas)>>)

PlainObject ==
    ObjectText(<<Q(CONTRATO)>>, <<<<"0", ".", "8", "7">>>>, <<Q(Firma)>>)

\* The two objects with what a model may put before and after them.
WrappedTexts ==
    {pre \o obj \o post :
        pre \in {<<>>, Fence \o LangTag \o <<"\n">>, Fence \o <<"\n">>,
                 <<"C", "l", "a", "r", "o", ":", " ">>, <<" ", "\n">>,
                 <<"{", "x", "}", " ">>, <<"}", " ">>},
        obj \in {ScenarioObject, PlainObject},
        post \in {<<>>, <<"\n">> \o Fence, <<" ", "f", "i", "n">>, <<"}">>,
                  <<" ", "{">>, <<"\n">>}}

\* Responses without a usable object.
BrokenTexts ==
    {<<>>, LoSiento, <<"{">>, <<"}">>, <<"}", "{">>, <<"{", "}">>, <<"{", ",", "}">>,
     <<"}", " ", "x", " ", "{">>, <<"{", " ", "a", "b">>, <<"a", "}", "b">>,
     Fence \o LangTag \o Fence,
     <<"{">> \o Q(KeyCategoria) \o <<"}">>,
     <<"{">> \o Member(KeyCategoria, Q(CONTRATO)) \o <<",", "}">>,
     <<"{">> \o Member(KeyCategoria, <<"\"">> \o CONTRATO) \o <<"}">>,
     <<"{">> \o Member(KeyCategoria, Q(<<"C", "O", "N", "\n", "T", "R", "A", "T", "O">>)) \o <<"}">>,
     <<"{">> \o Member(KeyScore, <<"0", "1">>) \o <<"}">>,
     <<"{">> \o Member(KeyScore, <<".", "5">>) \o <<"}">>,
     <<"{">> \o Member(KeyScore, <<"[", "1", ",", "]">>) \o <<"}">>,
     <<"[">> \o PlainObject \o <<"]">>,
     PlainObject \o <<" ">> \o PlainObject}

\* Everything the inference call may do, for the checks of the normalizer:
\* a text, no content, or an exception (of several lengths of str(e)).
NormResponses ==
    {InferenceText(t) : t \in ObjectTexts \cup WrappedTexts \cup BrokenTexts}
    \cup {InferenceNone}
    \cup {InferenceRaises(Rep("x", n)) : n \in {0, 30, 100, 101, 150}}

\* The responses the pipeline is run against: one of each kind of outcome.
Responses ==
    {InferenceText(PlainObject),
     InferenceText(Fence \o LangTag \o <<"\n">> \o ScenarioObject \o <<"\n">> \o Fence),
     InferenceText(ObjectText(<<Q(Factura)>>, <<<<"1", ".", "5">>>>, <<>>)),
     InferenceText(ObjectText(<<Q(CONTRATO)>>, <<LitNull>>, <<Q(Firma)>>)),
     InferenceText(ObjectText(<<Q(CONTRATO)>>, <<<<"0", ".", "8", "7", "5">>>>, <<ListEv>>)),
     InferenceText(ObjectText(<<Q(INFORME_TECNICO)>>, <<<<"-", "0", ".", "3">>>>, <<LitNull>>)),
     InferenceText(ObjectText(<<LitNull>>, <<<<"1", ".", "5">>>>, <<Q(Firma)>>)),
     InferenceText(LoSiento),
     InferenceText(<<"{">> \o Member(KeyCategoria, Q(CONTRATO)) \o <<",", "}">>),
     InferenceNone,
     InferenceRaises(Rep("x", 30)),
     InferenceRaises(Rep("x", 150))}

\* The outcome of the classifier on each response of the pipeline's set.
ClassifyTable == [v \in Variants |-> [r \in Responses |-> Classify(v, r)]]

MaxFiles == 2

MaxPages == 3

\* Page texts: empty (a scanned page), 49 and 50 characters once the
\* whitespace is collapsed (51 and 52 before), and more than a whole budget.
PageTexts ==
    {<<>>,
     <<Run("a", 24), Run(" ", 2), Run("\n", 1), Run("b", 24)>>,
     <<Run("a", 25), Run(" ", 2), Run("\n", 1), Run("b", 24)>>,
     <<Run("\n", 1), Run("a", 4100)>>}

\* Texts of the pages after the second.
TailTexts == {<<>>, <<Run("c", 60)>>}

\* A PDF as fitz sees it: the texts of its pages, and whether its pages
\* can be read and rendered (if not, the first access raises).
Docs ==
    {[pages |-> p, readable |-> TRUE] :
        p \in UNION {{q \in [1..n -> PageTexts \cup TailTexts] :
                        \A i \in 1..n :
                            q[i] \in (IF i <= 2 THEN PageTexts ELSE TailTexts)} :
                     n \in 0..MaxPages}}
    \cup {[pages |-> <<<<>>>>, readable |-> FALSE]}

\* Lengths of str(e) of an exception of fitz.
FileErrorLens == {20, 150}

(***************************************************************************)
(* State                                                                   *)
(***************************************************************************)
VARIABLES
    variant,        \* which program runs: "text" or "hybrid"
    pc,             \* position of the program
    pdf_files,      \* main: the files glob found, in discovery order
    idx,            \* main: position of the for loop in pdf_files
    row_num,        \* main: next row of the worksheet
    ws,             \* main: the data rows of the worksheet, by row number
    saved,          \* how many times wb.save has run
    doc,            \* process_pdf: the document being read
    text_content,   \* process_pdf: the extracted text
    handles,        \* the files whose fitz handle is open
    calls,          \* per file, the inference calls made for it
    resp,           \* what the inference call did for the current document
    result          \* the result of the current document

vars == <<variant, pc, pdf_files, idx, row_num, ws, saved, doc, text_content,
          handles, calls, resp, result>>

MinTextLen == 50

NoResult == Result(<<>>, 0, None)

NoResp == [kind |-> "unset", text |-> <<>>, msg |-> <<>>]

NoDoc == [pages |-> <<>>, readable |-> TRUE]

\* The file of the current iteration.
pdf_path == pdf_files[idx]

\* The except clause of process_pdf: str(e) goes into the evidence whole.
Corrupt(msg) == Result(ARCHIVO_CORRUPTO, 0, Str(msg))

(***************************************************************************)
(* main and process_pdf, step by step                                      *)
(***************************************************************************)
Init ==
    /\ variant \in Variants
    /\ pc = "start"
    /\ pdf_files = <<>>
    /\ idx = 1
    /\ row_num = 2
    /\ ws = <<>>
    /\ saved = 0
    /\ doc = NoDoc
    /\ text_content = <<>>
    /\ handles = {}
    /\ calls = [f \in 1..MaxFiles |-> 0]
    /\ resp = NoResp
    /\ result = NoResult

\* main: glob, the early return when there is no PDF, the workbook set-up.
main_glob ==
    /\ pc = "start"
    /\ \E n \in 0..MaxFiles :
        /\ pdf_files' = [i \in 1..n |-> i]
        /\ pc' = IF n = 0 THEN "done" ELSE "loop"
    /\ UNCHANGED <<variant, idx, row_num, ws, saved, doc, text_content,
                   handles, calls, resp, result>>

\* main: the head of the for loop.
main_next ==
    /\ pc = "loop"
    /\ pc' = IF idx <= Len(pdf_files) THEN "open" ELSE "save"
    /\ UNCHANGED <<variant, pdf_files, idx, row_num, ws, saved, doc,
                   text_content, handles, calls, resp, result>>

\* process_pdf: fitz.open raises, or yields a document.
pdf_open ==
    /\ pc = "open"
    /\ \/ \E n \in FileErrorLens :
            /\ result' = Corrupt(Rep("x", n))
            /\ pc' = "write"
            /\ UNCHANGED <<doc, handles>>
       \/ \E d \in Docs :
            /\ doc' = d
            /\ handles' = handles \cup {pdf_path}
            /\ pc' = "pages"
            /\ UNCHANGED result
    /\ UNCHANGED <<variant, pdf_files, idx, row_num, ws, saved, text_content,
                   calls, resp>>

\* A faulty variant of the page-count test of process_pdf: a document
\* without pages goes on to the classifier.
pdf_pages_unchecked ==
    /\ pc = "pages"
    /\ pc' = IF Len(doc.pages) = 0 THEN "classify" ELSE "extract"
    /\ UNCHANGED <<variant, pdf_files, idx, row_num, ws, saved, doc, text_content,
                   handles, calls, resp, result>>

\* process_pdf: a document without pages is returned as VACIO at once.
pdf_pages ==
    /\ pc = "pages"
    /\ IF Len(doc.pages) = 0
       THEN /\ result' = Result(VACIO, 0,
                                Str(IF variant = "hybrid" THEN PdfSinPaginas
                                                          ELSE SinPaginas))
            /\ doc' = NoDoc
            /\ pc' = "write"
       ELSE /\ pc' = "extract"
            /\ UNCHANGED <<result, doc>>
    /\ UNCHANGED <<variant, pdf_files, idx, row_num, ws, saved, text_content,
                   handles, calls, resp>>

\* A faulty variant of the extraction step: the hybrid program tests the
\* length of the text too.
pdf_extract_with_threshold ==
    /\ pc = "extract"
    /\ IF ~doc.readable
       THEN /\ \E n \in FileErrorLens : result' = Corrupt(Rep("x", n))
            /\ pc' = "write"
            /\ UNCHANGED text_content
       ELSE /\ text_content' = IF variant = "text"
                               THEN extract_text_smart(doc.pages, MaxChars)
                               ELSE doc.pages[1]
            /\ pc' = "threshold"
            /\ UNCHANGED result
    /\ doc' = NoDoc
    /\ UNCHANGED <<variant, pdf_files, idx, row_num, ws, saved, handles,
                   calls, resp>>

\* process_pdf: the text of the document (text-only: extract_text_smart;
\* hybrid: the text of page 1, and its rendering).  An exception of fitz
\* or of the image library ends in the except clause.
pdf_extract ==
    /\ pc = "extract"
    /\ IF ~doc.readable
       THEN /\ \E n \in FileErrorLens : result' = Corrupt(Rep("x", n))
            /\ pc' = "write"
            /\ UNCHANGED text_content
       ELSE /\ text_content' = IF variant = "text"
                               THEN extract_text_smart(doc.pages, MaxChars)
                               ELSE doc.pages[1]
            /\ pc' = IF variant = "text" THEN "threshold" ELSE "classify"
            /\ UNCHANGED result
    /\ doc' = NoDoc
    /\ UNCHANGED <<variant, pdf_files, idx, row_num, ws, saved, handles,
                   calls, resp>>

\* A faulty variant of the threshold test: a text of exactly MinTextLen
\* characters is taken for a scanned image too.
pdf_threshold_inclusive ==
    /\ pc = "threshold"
    /\ IF RLen(text_content) <= MinTextLen
       THEN /\ handles' = handles \ {pdf_path}
            /\ result' = Result(REVISION_MANUAL, 0, Str(PdfEsImagen))
            /\ pc' = "write"
            /\ UNCHANGED text_content
       ELSE /\ pc' = "classify"
            /\ text_content' = <<>>
            /\ UNCHANGED <<handles, result>>
    /\ UNCHANGED <<variant, pdf_files, idx, row_num, ws, saved, doc, calls, resp>>

\* process_pdf (text-only): too little text means a scanned image.
\* Otherwise the text goes into the prompt of the classifier, and is not
\* read again.
pdf_threshold ==
    /\ pc = "threshold"
    /\ IF RLen(text_content) < MinTextLen
       THEN /\ handles' = handles \ {pdf_path}
            /\ result' = Result(REVISION_MANUAL, 0, Str(PdfEsImagen))
            /\ pc' = "write"
            /\ UNCHANGED text_content
       ELSE /\ pc' = "classify"
            /\ text_content' = <<>>
            /\ UNCHANGED <<handles, result>>
    /\ UNCHANGED <<variant, pdf_files, idx, row_num, ws, saved, doc, calls, resp>>

\* process_pdf, after the call of the classifier: its record goes on to
\* doc.close(); an exception leaving it ends in the except clause.
ClassifyReturns(out) ==
    /\ result' = IF out.kind = "return" THEN out.res ELSE Corrupt(out.msg)
    /\ pc' = IF out.kind = "return" THEN "close" ELSE "write"

\* process_pdf: the call of the classifier, which makes the inference call
\* (the extracted text is its argument, and is not read after the call).
\* An exception leaving the classifier ends in the except clause.
pdf_classify ==
    /\ pc = "classify"
    /\ \E r \in Responses :
        /\ resp' = r
        /\ calls' = [calls EXCEPT ![pdf_path] = @ + 1]
        /\ ClassifyReturns(ClassifyTable[variant][r])
    /\ text_content' = <<>>
    /\ UNCHANGED <<variant, pdf_files, idx, row_num, ws, saved, doc, handles>>

\* process_pdf: doc.close() and the return of the result.
pdf_close ==
    /\ pc = "close"
    /\ handles' = handles \ {pdf_path}
    /\ pc' = "write"
    /\ UNCHANGED <<variant, pdf_files, idx, row_num, ws, saved, doc,
                   text_content, calls, resp, result>>

\* What openpyxl accepts as the value of a cell: text, numbers, booleans
\* and None; for any other value ws.cell raises ValueError.
CellAccepts(v) == v.t \notin {"list", "dict"}

\* A faulty variant of the row write: row_num is not advanced, every
\* document is written to the same row.
main_write_row_in_place ==
    /\ pc = "write"
    /\ IF CellAccepts(result.evidencia)
       THEN /\ ws' = (row_num :> <<pdf_path, result.categoria,
                                   result.score, result.evidencia>>) @@ ws
            /\ idx' = idx + 1
            /\ pc' = "loop"
       ELSE /\ ws' = ws @@ (row_num :> <<pdf_path, result.categoria,
                                         result.score>>)
            /\ pc' = "crashed"
            /\ UNCHANGED idx
    /\ text_content' = <<>>
    /\ resp' = NoResp
    /\ result' = NoResult
    /\ UNCHANGED <<variant, pdf_files, row_num, saved, doc, handles, calls>>

\* main: the four cells of the row, then row_num += 1.  The ValueError of
\* a cell value that openpyxl cannot convert is not caught: it ends main.
main_write_row ==
    /\ pc = "write"
    /\ IF CellAccepts(result.evidencia)
       THEN /\ ws' = ws @@ (row_num :> <<pdf_path, result.categoria,
                                         result.score, result.evidencia>>)
            /\ row_num' = row_num + 1
            /\ idx' = idx + 1
            /\ pc' = "loop"
       ELSE /\ ws' = ws @@ (row_num :> <<pdf_path, result.categoria,
                                         result.score>>)
            /\ pc' = "crashed"
            /\ UNCHANGED <<row_num, idx>>
    /\ text_content' = <<>>
    /\ resp' = NoResp
    /\ result' = NoResult
    /\ UNCHANGED <<variant, pdf_files, saved, doc, handles, calls>>

\* main: wb.save after the loop.
main_save ==
    /\ pc = "save"
    /\ saved' = saved + 1
    /\ pc' = "done"
    /\ UNCHANGED <<variant, pdf_files, idx, row_num, ws, doc, text_content,
                   handles, calls, resp, result>>

Next ==
    \/ main_glob
    \/ main_next
    \/ pdf_open
    \/ pdf_pages
    \/ pdf_extract
    \/ pdf_threshold
    \/ pdf_classify
    \/ pdf_close
    \/ main_write_row
    \/ main_save

Spec == Init /\ [][Next]_vars

(***************************************************************************)
(* The classifiers alone, on every response of NormResponses               *)
(***************************************************************************)
InitNorm ==
    /\ variant \in Variants
    /\ pc = "norm"
    /\ resp \in NormResponses
    /\ pdf_files = <<>>
    /\ idx = 1
    /\ row_num = 2
    /\ ws = <<>>
    /\ saved = 0
    /\ doc = NoDoc
    /\ text_content = <<>>
    /\ handles = {}
    /\ calls = [f \in 1..MaxFiles |-> 0]
    /\ result = NoResult

\* The end of a call of the classifier.
NormReturns(out) ==
    /\ result' = out.res
    /\ pc' = IF out.kind = "return" THEN "norm_returned" ELSE "norm_raised"

\* One call of the classifier: it returns a record, or an exception leaves it.
norm_classify ==
    /\ pc = "norm"
    /\ NormReturns(Classify(variant, resp))
    /\ UNCHANGED <<variant, pdf_files, idx, row_num, ws, saved, doc,
                   text_content, handles, calls, resp>>

\* repr of a float within [0, 1] given in thousandths, as json.dumps writes
\* it: the shortest text, with one decimal at least.
FloatRepr(n) ==
    <<Digits[n \div 1000 + 1], ".", Digits[(n % 1000) \div 100 + 1]>>
    \o (IF n % 100 = 0 THEN <<>> ELSE <<Digits[(n % 100) \div 10 + 1]>>)
    \o (IF n % 10 = 0 THEN <<>> ELSE <<Digits[(n % 10) + 1]>>)

\* json.dumps of a result record: the three fields in the order of the
\* record.  A str is written between quotes (no text of a result has a
\* character that needs an escape), None as null, a list or a dict as the
\* text it was decoded from.
Dumps(res) ==
    ObjectText(<<Q(res.categoria)>>, <<FloatRepr(res.score)>>,
               <<IF res.evidencia.t = "str" THEN Q(res.evidencia.s)
                 ELSE IF res.evidencia.t = "null" THEN LitNull
                 ELSE res.evidencia.s>>)

\* The returned record is serialized, to be given to the classifier as a
\* response.
norm_dumps ==
    /\ pc = "norm_returned"
    /\ result.evidencia.t \in {"str", "null", "list", "dict"}
    /\ resp' = InferenceText(Dumps(result))
    /\ pc' = "norm_dumped"
    /\ UNCHANGED <<variant, pdf_files, idx, row_num, ws, saved, doc,
                   text_content, handles, calls, result>>

\* The classifier runs on the serialized record.
norm_again ==
    /\ pc = "norm_dumped"
    /\ result' = Classify(variant, resp).res
    /\ pc' = IF Classify(variant, resp).kind = "return"
             THEN "norm_again" ELSE "norm_raised"
    /\ UNCHANGED <<variant, pdf_files, idx, row_num, ws, saved, doc,
                   text_content, handles, calls, resp>>

NextNorm ==
    \/ norm_classify
    \/ norm_dumps
    \/ norm_again

SpecNorm == InitNorm /\ [][NextNorm]_vars

(***************************************************************************)
(* Properties                                                              *)
(***************************************************************************)
\* The classifier has returned from the return statement of the
\* normalization: the response held an object that json.loads decoded and
\* whose fields did not raise.
Normalized ==
    /\ pc = "norm_returned"
    /\ resp.kind = "text"
    /\ Cleaned(resp.text) # <<>>
    /\ TryBlock(variant, resp, <<>>, <<>>).kind = "return"

\* C1: the normalizer never raises.  Whatever the inference call does
\* (any response text, no content, an exception), classify_document_hybrid
\* and classify_document_text_only return a record with the three fields
\* categoria, score, evidencia; no exception leaves them.
C1_NeverRaises ==
    /\ pc # "norm_raised"
    /\ pc = "norm_returned" =>
          /\ DOMAIN result = {"categoria", "score", "evidencia"}
          /\ result.categoria \in CATEGORIAS_VALIDAS \cup Sentinels

\* The inference call raised, and the classifier returned the record ERROR.
C1_Witness ==
    /\ pc = "norm_returned"
    /\ resp.kind = "raise"
    /\ result.categoria = ERROR

\* C2 as stated: whenever a classifier returns a sentinel category
\* (REVISION_MANUAL or ERROR), on any path, the returned score is exactly 0.0.
C2_SentinelScoreZero ==
    (pc = "norm_returned" /\ result.categoria \in {REVISION_MANUAL, ERROR})
        => result.score = 0

\* C2, amended: a sentinel returned because no JSON was found, the JSON did
\* not parse, or an exception occurred (the inference call's included)
\* carries the score 0.0.  A label outside the closed set is no such path:
\* the result is REVISION_MANUAL with the model's score (here 0.87).
C2_FailurePathScoreZero ==
    /\ (pc = "norm_returned" /\ ~Normalized) =>
          (result.categoria \in {REVISION_MANUAL, ERROR} /\ result.score = 0)
    /\ Normalized => result.categoria # ERROR
    /\ \A t \in {Factura, REVISION_MANUAL, ERROR, <<>>} :
          (pc = "norm_returned"
           /\ resp = InferenceText(ObjectText(<<Q(t)>>, <<<<"0", ".", "8", "7">>>>, <<Q(Firma)>>)))
              => result = Result(REVISION_MANUAL, 870, Str(Firma))

\* The response was an object cut short: the parse failed, and the
\* classifier returned a sentinel with the score 0.0.
C2_Witness ==
    /\ pc = "norm_returned"
    /\ resp = InferenceText(<<"{">> \o Member(KeyCategoria, Q(CONTRATO)) \o <<",", "}">>)
    /\ result.categoria \in {REVISION_MANUAL, ERROR}
    /\ result.score = 0

C4_ClosedCategories ==
    /\ result = NoResult \/ result.categoria \in CATEGORIAS_VALIDAS \cup Sentinels
    /\ \A r \in DOMAIN ws : ws[r][2] \in CATEGORIAS_VALIDAS \cup Sentinels

\* The model answered with the label FACTURA, and the row about to be
\* written carries REVISION_MANUAL.
C4_Witness ==
    /\ pc = "write"
    /\ resp = InferenceText(ObjectText(<<Q(Factura)>>, <<<<"1", ".", "5">>>>, <<>>))
    /\ result.categoria = REVISION_MANUAL

C6_ForwardProgress ==
    /\ pc # "crashed"
    /\ saved <= 1
    /\ saved = 1 => idx = Len(pdf_files) + 1
    /\ (pc = "done" /\ pdf_files # <<>>) => saved = 1

\* C7: a document without pages always yields VACIO with the score 0.0,
\* and no inference call is made for it, in both variants.
C7_ZeroPagesVacio ==
    /\ [][(pc = "pages" /\ Len(doc.pages) = 0)
            => /\ pc' = "write"
               /\ result'.categoria = VACIO
               /\ result'.score = 0
               /\ calls' = calls
               /\ calls[pdf_path] = 0]_vars
    /\ [](\A r \in DOMAIN ws : ws[r][2] = VACIO => calls[ws[r][1]] = 0)

\* The hybrid variant has met a document without pages.
C7_Witness ==
    /\ variant = "hybrid"
    /\ pc = "write"
    /\ result.categoria = VACIO
    /\ result.score = 0
    /\ calls[pdf_path] = 0

\* C8: in the text-only variant a document whose extracted text has fewer
\* than 50 characters yields REVISION_MANUAL with the score 0.0 and no
\* inference call; with 50 characters or more it goes on to exactly one
\* inference call.
C8_TextThreshold ==
    /\ [][(variant = "text" /\ pc = "threshold")
            => IF RLen(text_content) < 50
               THEN /\ pc' = "write"
                    /\ result'.categoria = REVISION_MANUAL
                    /\ result'.score = 0
                    /\ calls' = calls
                    /\ calls[pdf_path] = 0
               ELSE pc' = "classify"]_vars
    /\ [][(variant = "text" /\ pc = "classify")
            => /\ calls[pdf_path] = 0
               /\ calls'[pdf_path] = 1
               /\ pc' \in {"close", "write"}]_vars
    /\ [](\A f \in DOMAIN calls : calls[f] <= 1)

\* A text of 49 characters has been held back from the classifier.
C8_Witness ==
    /\ variant = "text"
    /\ pc = "write"
    /\ RLen(text_content) = 49
    /\ result.categoria = REVISION_MANUAL
    /\ calls[pdf_path] = 0

\* The valid responses: a valid label, a number within [0, 1] (its text as
\* the model writes it, the number in thousandths, and the number rounded
\* to hundredths), any evidence.
ValidCases ==
    {[text |-> ObjectText(<<Q(c)>>, <<n[1]>>, ev), cat |-> c,
      score |-> n[2], rounded |-> n[3]] :
        c \in CATEGORIAS_VALIDAS, ev \in EvFields,
        n \in {<<<<"0">>, 0, 0>>, <<<<"1">>, 1000, 1000>>,
               <<<<"1", ".", "0">>, 1000, 1000>>, <<<<"0", ".", "5">>, 500, 500>>,
               <<<<"0", ".", "8", "7">>, 870, 870>>,
               <<<<"0", ".", "9", "1">>, 910, 910>>,
               <<<<"0", ".", "8", "7", "5">>, 875, 880>>,
               <<<<"0", ".", "1", "2", "5">>, 125, 120>>,
               <<<<"0", ".", "3", "3", "3">>, 333, 330>>}}

\* C9 as stated: for a valid JSON response with a valid category and a
\* numeric score within [0, 1], both variants return exactly that category
\* and exactly that score.
C9_ValidUnchanged ==
    pc = "norm_returned" =>
        \A k \in ValidCases :
            resp = InferenceText(k.text)
                => (result.categoria = k.cat /\ result.score = k.score)

\* C9, amended: for such a response both variants return exactly that
\* category; the text-only variant returns exactly that score, the hybrid
\* variant that score rounded to two decimals (0.875 becomes 0.88).
C9_ValidUnchangedOrRounded ==
    pc = "norm_returned" =>
        \A k \in ValidCases :
            resp = InferenceText(k.text)
                => /\ result.categoria = k.cat
                   /\ result.score = IF variant = "hybrid" THEN k.rounded ELSE k.score

\* The hybrid classifier has rounded the score 0.875 of a valid response.
C9_Witness ==
    /\ pc = "norm_returned"
    /\ variant = "hybrid"
    /\ resp = InferenceText(ObjectText(<<Q(CONTRATO)>>, <<<<"0", ".", "8", "7", "5">>>>, <<Q(Firma)>>))
    /\ result.categoria = CONTRATO
    /\ result.score = 880

\* The responses whose categoria is a valid label with one trailing S, in
\* upper case or spoken, or a valid label as it is; with every score field.
\* typed tells whether the score field is absent, a number, a string or a
\* boolean.
PluralCases ==
    UNION {{[text |-> ObjectText(<<Q(t)>>, sc, <<Q(Firma)>>), cat |-> c,
             typed |-> sc \notin {<<LitNull>>, <<ListScore>>, <<DictEv>>}] :
               sc \in ScoreFields,
               t \in {c \o <<"S">>, Spoken(c) \o <<"s">>, c, Spoken(c)}} :
           c \in CATEGORIAS_VALIDAS}

\* C10 as stated: for every response whose categoria, in upper case with
\* underscores for spaces, is a valid category with one trailing S, the
\* normalizer returns the singular valid category; a valid token is
\* returned as it is.
C10_PluralRepair ==
    pc = "norm_returned" =>
        \A k \in PluralCases :
            resp = InferenceText(k.text) => result.categoria = k.cat

\* C10, amended: the same, for the responses whose score field is absent,
\* a number, a string or a boolean; with a score of another type (null, a
\* list, an object) the result is ERROR, repaired label or not.
C10_PluralRepairOnReturn ==
    pc = "norm_returned" =>
        \A k \in PluralCases :
            resp = InferenceText(k.text)
                => result.categoria = IF k.typed THEN k.cat ELSE ERROR

\* The spoken plural label "informe tecnicos" has been repaired.
C10_Witness ==
    /\ pc = "norm_returned"
    /\ resp = InferenceText(ObjectText(<<Q(Spoken(INFORME_TECNICO) \o <<"s">>)>>,
                                       <<<<"0", ".", "8", "7">>>>, <<Q(Firma)>>))
    /\ result.categoria = INFORME_TECNICO

\* Responses whose score is a string: the categoria field (absent, a valid
\* label, a label outside the closed set) with the label expected, and the
\* text of the score with the number expected, in thousandths, and that
\* number rounded to hundredths.
StringScoreCases ==
    {[text |-> ObjectText(c[1], <<Q(n[1])>>, <<Q(Firma)>>), cat |-> c[2],
      score |-> n[2], rounded |-> n[3]] :
        c \in {<<<<Q(v)>>, v>> : v \in CATEGORIAS_VALIDAS}
              \cup {<<<<Q(Factura)>>, REVISION_MANUAL>>, <<<<>>, REVISION_MANUAL>>},
        n \in {<<<<"0", ",", "8", "7">>, 870, 870>>,
               <<<<"0", ",", "9", "1">>, 910, 910>>,
               <<<<"0", ".", "4">>, 400, 400>>,
               <<<<"1", ",", "5">>, 1000, 1000>>,
               <<<<"-", "0", ",", "3">>, 0, 0>>,
               <<<<"0", ",", "8", "7", "5">>, 875, 880>>,
               <<<<" ", "0", ",", "5", " ">>, 500, 500>>,
               <<<<"1", ",", "2", ",", "3">>, 500, 500>>,
               <<<<"a", "l", "t", "o">>, 500, 500>>,
               <<<<>>, 500, 500>>}}

\* C11: a score given as a string with a decimal comma ("0,87") is parsed
\* to that number (0.87) and then clamped; a string that is no number after
\* the comma has become a point yields the score 0.5, the category kept,
\* and never an error result.  (The hybrid variant rounds the score to two
\* decimals afterwards, as for any score.)
C11_StringScore ==
    pc = "norm_returned" =>
        \A k \in StringScoreCases :
            resp = InferenceText(k.text)
                => /\ result.categoria = k.cat
                   /\ result.score = IF variant = "hybrid" THEN k.rounded ELSE k.score

\* The score "0,87" has been parsed to 0.87.
C11_Witness ==
    /\ pc = "norm_returned"
    /\ resp = InferenceText(ObjectText(<<Q(CONTRATO)>>, <<Q(<<"0", ",", "8", "7">>)>>,
                                       <<Q(Firma)>>))
    /\ result.categoria = CONTRATO
    /\ result.score = 870

\* C12: for a response without an open brace followed later by a close
\* brace (no brace at all, braces of one kind only, or every close brace
\* before the first open brace) the classifier returns REVISION_MANUAL with
\* the score 0.0 and its fixed message; nothing is left of the response
\* after the cleaning, so json.loads is not called.
C12_NoBracePair ==
    (/\ pc = "norm_returned"
     /\ resp.kind = "text"
     /\ ~\E i \in DOMAIN resp.text : \E j \in DOMAIN resp.text :
            i < j /\ resp.text[i] = "{" /\ resp.text[j] = "}")
        => /\ result = Result(REVISION_MANUAL, 0,
                              Str(IF variant = "hybrid" THEN NoJsonValido
                                                        ELSE JsonIlegible))
           /\ Cleaned(resp.text) = <<>>

\* The response had its close brace before its open brace.
C12_Witness ==
    /\ pc = "norm_returned"
    /\ resp = InferenceText(<<"}", " ", "x", " ", "{">>)
    /\ result.categoria = REVISION_MANUAL
    /\ result.score = 0

\* C13: idempotence.  For every record the classifier returns, the
\* classifier run on that record serialized as a JSON object returns the
\* same record.
C13_Idempotent ==
    [][pc = "norm_dumped" => (pc' = "norm_again" /\ result' = result)]_vars

\* C14: the repairs compose.  The object with the category "CONTRATOS", the
\* score "0,91" and the evidence "Clausulas, Contratante", wrapped in a
\* json fence, yields CONTRATO, 0.91 and that evidence; and so it does with
\* any text without braces before and after it (a fence with or without
\* the word json, words, whitespace), as the plain object yields its own
\* fields.
C14_RepairChain ==
    pc = "norm_returned" =>
        \A pre \in {<<>>, Fence \o LangTag \o <<"\n">>, Fence \o <<"\n">>,
                    <<"C", "l", "a", "r", "o", ":", " ">>, <<" ", "\n">>} :
        \A post \in {<<>>, <<"\n">> \o Fence, <<" ", "f", "i", "n">>, <<"\n">>} :
            /\ resp = InferenceText(pre \o ScenarioObject \o post)
                  => result = Result(CONTRATO, 910, Str(Clausulas))
            /\ resp = InferenceText(pre \o PlainObject \o post)
                  => result = Result(CONTRATO, 870, Str(Firma))

\* The response of the scenario, in its json fence, has been normalized.
C14_Witness ==
    /\ pc = "norm_returned"
    /\ resp = InferenceText(Fence \o LangTag \o <<"\n">> \o ScenarioObject
                            \o <<"\n">> \o Fence)
    /\ result = Result(CONTRATO, 910, Str(Clausulas))

\* C15: the handle process_pdf opens is closed on each of its exit paths:
\* when main is between two documents, or past the last, no handle is open.
C15_HandlesClosed ==
    pc \in {"loop", "open", "save", "done"} => handles = {}

\* C16: a response whose text between the first open brace and the last
\* close brace is no JSON yields REVISION_MANUAL with the score 0.0 and a
\* message as evidence, in the hybrid and in the text-only variant alike;
\* a malformed response never yields ERROR.
C16_MalformedIsManual ==
    pc = "norm_returned" =>
        \A t \in {<<"{", ",", "}">>,
                  <<"{">> \o Q(KeyCategoria) \o <<"}">>,
                  <<"{">> \o Member(KeyCategoria, Q(CONTRATO)) \o <<",", "}">>,
                  <<"{">> \o Member(KeyCategoria, <<"\"">> \o CONTRATO) \o <<"}">>,
                  <<"{">> \o Member(KeyScore, <<"0", "1">>) \o <<"}">>,
                  <<"{">> \o Member(KeyScore, <<".", "5">>) \o <<"}">>,
                  PlainObject \o <<" ">> \o PlainObject} :
            resp = InferenceText(t)
                => /\ result.categoria = REVISION_MANUAL
                   /\ result.score = 0
                   /\ result.evidencia.t = "str"

\* C17: when the inference call raises, the result of the document is ERROR
\* with the score 0.0 and, as evidence, at most the first 100 characters of
\* the message of the exception (after the fixed prefix in the hybrid
\* variant); the classifier returns it to process_pdf, which goes on to
\* doc.close() and not into its except clause, so that the document is not
\* reported as ARCHIVO_CORRUPTO.
C17_InferenceRaisesError ==
    resp.kind = "raise" =>
        /\ pc \in {"close", "write"}
        /\ result = Result(ERROR, 0,
                           Str((IF variant = "hybrid" THEN FalloInferencia ELSE <<>>)
                               \o Prefix(resp.msg, 100)))
        /\ Len(Prefix(resp.msg, 100)) <= 100

C17_Witness ==
    /\ pc = "close"
    /\ variant = "hybrid"
    /\ resp = InferenceRaises(Rep("x", 150))
    /\ result.categoria = ERROR
    /\ Len(result.evidencia.s) = Len(FalloInferencia) + 100

\* C18: a document reported as ARCHIVO_CORRUPTO has the score 0.0 and, as
\* evidence, the detail of the exception cut to a bounded length (the 100
\* characters the classifiers keep of a message).
C18_CorruptDetailTruncated ==
    (pc = "write" /\ result.categoria = ARCHIVO_CORRUPTO) =>
        /\ result.score = 0
        /\ result.evidencia.t = "str"
        /\ Len(result.evidencia.s) <= 100

\* C19: every document that glob found reaches Done, whatever the documents
\* before it were answered with.  main has no step left when pc is "done"
\* or "crashed"; a document that process_pdf has not been called on by then
\* never reaches Done, so that in such a state every document is the
\* current one or one before it.
C19_EveryDocumentDone ==
    pc \in {"done", "crashed"} =>
        \A f \in 1..Len(pdf_files) : /\ f <= idx
                                     /\ calls[f] <= 1

\* Documents and the text extract_text_smart returns for them, worked out
\* by hand from the policy.  The pages are those of PageTexts: one of 49
\* and one of 50 characters once collapsed, and one of 4100 characters
\* after a newline; the marker, once collapsed and trimmed, is Omitido
\* without its two newlines.
ExtractCases ==
    {[pages |-> <<<<Run("a", 24), Run(" ", 2), Run("\n", 1), Run("b", 24)>>>>,
      text |-> <<Run("a", 24), Run(" ", 1), Run("b", 24)>>],
     [pages |-> <<<<Run("\n", 1), Run("a", 4100)>>>>,
      text |-> <<Run("a", 4000)>>],
     [pages |-> <<<<>>, <<>>>>,
      text |-> <<>>],
     [pages |-> <<<<Run("a", 24), Run(" ", 2), Run("\n", 1), Run("b", 24)>>,
                  <<Run("a", 25), Run(" ", 2), Run("\n", 1), Run("b", 24)>>>>,
      text |-> <<Run("a", 24), Run(" ", 1), Run("b", 24), Run(" ", 1),
                 Run("a", 25), Run(" ", 1), Run("b", 24)>>],
     [pages |-> <<<<Run("a", 24), Run(" ", 2), Run("\n", 1), Run("b", 24)>>,
                  <<Run("\n", 1), Run("a", 4100)>>>>,
      text |-> <<Run("a", 24), Run(" ", 1), Run("b", 24), Run(" ", 1),
                 Run("a", 499)>>],
     [pages |-> <<<<Run("a", 24), Run(" ", 2), Run("\n", 1), Run("b", 24)>>,
                  <<Run("a", 25), Run(" ", 2), Run("\n", 1), Run("b", 24)>>,
                  <<Run("c", 60)>>>>,
      text |-> <<Run("a", 24), Run(" ", 1), Run("b", 24), Run(" ", 1),
                 Run("a", 25), Run(" ", 1), Run("b", 24), Run(" ", 1)>>
               \o SubSeq(Omitido, 2, Len(Omitido) - 1)
               \o <<Run(" ", 1), Run("c", 60)>>],
     [pages |-> <<<<Run("a", 24), Run(" ", 2), Run("\n", 1), Run("b", 24)>>,
                  <<Run("\n", 1), Run("a", 4100)>>,
                  <<>>>>,
      text |-> <<Run("a", 24), Run(" ", 1), Run("b", 24), Run(" ", 1),
                 Run("a", 499), Run(" ", 1)>>
               \o SubSeq(Omitido, 2, Len(Omitido) - 1)],
     [pages |-> <<<<>>, <<Run("\n", 1), Run("a", 4100)>>, <<Run("c", 60)>>>>,
      text |-> <<Run("a", 499), Run(" ", 1)>>
               \o SubSeq(Omitido, 2, Len(Omitido) - 1)
               \o <<Run(" ", 1), Run("c", 60)>>]}

\* C20: the text the text-only process_pdf gets from extract_text_smart has
\* at most MaxChars characters, every whitespace in it is a single space
\* between two other characters or at the very end of a text cut at
\* MaxChars, a document of two pages yields at most page 1, a space and
\* SecondPageChars characters and no omission marker, a document of more
\* pages yields the marker unless the text was cut, and the documents of
\* ExtractCases yield the texts worked out for them.
C20_ExtractPolicy ==
    [][(pc = "extract" /\ variant = "text" /\ doc.readable) =>
        /\ pc' = "threshold"
        /\ RLen(text_content') <= MaxChars
        /\ \A i \in DOMAIN text_content' :
              /\ text_content'[i].n >= 1
              /\ text_content'[i].c \in WS =>
                    /\ text_content'[i] = Run(" ", 1)
                    /\ i > 1
                    /\ text_content'[i - 1].c \notin WS
                    /\ i < Len(text_content') \/ RLen(text_content') = MaxChars
        /\ Len(doc.pages) = 2 =>
              RLen(text_content')
                  <= RLen(RStrip(RCollapse(doc.pages[1]))) + 1 + SecondPageChars
        /\ Len(doc.pages) <= 2 => \A i \in DOMAIN text_content' : text_content'[i].c # "["
        /\ (Len(doc.pages) > 2 /\ RLen(text_content') < MaxChars)
              => \E i \in DOMAIN text_content' : text_content'[i].c = "["
        /\ \A case \in ExtractCases :
              doc.pages = case.pages => text_content' = case.text]_vars

C20_Witness ==
    /\ pc = "threshold"
    /\ variant = "text"
    /\ RLen(text_content) = 187
    /\ \E i \in DOMAIN text_content : text_content[i].c = "["

\* C21: a well-formed response whose categoria field is absent, empty,
\* outside the closed set, doubly plural, or no string at all (null, a
\* number, a list) yields the label REVISION_MANUAL, in both variants.
C21_InvalidCategoryManual ==
    pc = "norm_returned" =>
        \A c \in {<<>>, <<Q(<<>>)>>, <<Q(Factura)>>, <<Q(<<"S">>)>>,
                  <<Q(CONTRATO \o <<"S", "S">>)>>,
                  <<LitNull>>, <<<<"3">>>>, <<<<"[">> \o Q(CONTRATO) \o <<"]">>>>} :
            resp = InferenceText(ObjectText(c, <<<<"0", ".", "8", "7">>>>, <<Q(Firma)>>))
                => result.categoria = REVISION_MANUAL

\* C22: the evidence of the result process_pdf returns for a document is
\* always a text (possibly empty): never None and never a list, a dict or
\* a number, whatever the evidencia field of the response held.
C22_EvidenceIsText ==
    (pc \in {"close", "write"} /\ result # NoResult) => result.evidencia.t = "str"

\* C23: the evidence of the result is the text of the evidencia field of a
\* well-formed response, character for character, also when that text holds
\* a fence or a brace; when the field is absent it is the variant's default
\* text.
C23_EvidenceVerbatim ==
    pc = "norm_returned" =>
        /\ \A t \in {Firma, Clausulas, <<>>, <<"a", BQ, BQ, BQ, "b">>, <<"x", "}", "y">>} :
              resp = InferenceText(ObjectText(<<Q(CONTRATO)>>, <<<<"0", ".", "8", "7">>>>,
                                              <<Q(t)>>))
                  => result.evidencia = Str(t)
        /\ resp = InferenceText(ObjectText(<<Q(CONTRATO)>>, <<<<"0", ".", "8", "7">>>>, <<>>))
              => result.evidencia = Str(IF variant = "hybrid" THEN SinEvidenciaDetallada
                                                              ELSE SinEvidencia)

\* C24: the hybrid process_pdf has no test of the length of the text.  A
\* document with a page, whose text and rendering can be had, goes from the
\* extraction straight to the classifier with the text of page 1, however
\* short, and the classifier makes one inference call for it; a hybrid
\* result that no inference call was made for is VACIO or ARCHIVO_CORRUPTO.
C24_HybridNoThreshold ==
    /\ [](variant = "hybrid" =>
            /\ pc # "threshold"
            /\ pc \in {"open", "pages", "extract", "classify"} => calls[idx] = 0
            /\ pc = "close" => calls[idx] = 1
            /\ pc = "write" =>
                  /\ calls[idx] <= 1
                  /\ calls[idx] = 0 => result.categoria \in {VACIO, ARCHIVO_CORRUPTO}
                  /\ calls[idx] = 1 => resp # NoResp)
    /\ [][variant = "hybrid" =>
            /\ (pc = "extract" /\ doc.readable)
                  => (pc' = "classify" /\ text_content' = doc.pages[1])
            /\ pc = "classify"
                  => (calls' = [calls EXCEPT ![idx] = 1] /\ resp' \in Responses)]_vars

C24_Witness ==
    /\ variant = "hybrid"
    /\ pc = "classify"
    /\ text_content = <<>>
    /\ idx = 2
    /\ calls = [f \in 1..MaxFiles |-> IF f = 1 THEN 1 ELSE 0]

\* C25: a well-formed response with a valid label whose score field is
\* null, a list or an object yields ERROR with the score 0.0 and the
\* message of the exception as evidence, in both variants: the label is
\* lost, and neither the default 0.5 nor the clamp is applied.  When the
\* score field is absent the score is 0.5 and the label and the evidence
\* are kept.
C25_ScoreOfOtherType ==
    pc = "norm_returned" =>
        \A c \in CATEGORIAS_VALIDAS :
            /\ \A sc \in {LitNull, ListScore, DictEv} :
                  resp = InferenceText(ObjectText(<<Q(c)>>, <<sc>>, <<Q(Firma)>>))
                      => /\ result.categoria = ERROR
                         /\ result.score = 0
                         /\ result.evidencia.t = "str"
                         /\ Len(result.evidencia.s) > 0
                         /\ Len(result.evidencia.s) <= Len(FalloInferencia) + 100
            /\ resp = InferenceText(ObjectText(<<Q(c)>>, <<>>, <<Q(Firma)>>))
                  => result = Result(c, 500, Str(Firma))

C25_Witness ==
    /\ pc = "norm_returned"
    /\ resp = InferenceText(ObjectText(<<Q(CONTRATO)>>, <<LitNull>>, <<Q(Firma)>>))
    /\ result.categoria = ERROR
    /\ result.score = 0

=============================================================================
